---- MODULE Spec2Model ----
(***************************************************************************)
(* The YADIL parser (lib/parser/mod.rs, lib/parser/literals.rs) as a state *)
(* machine.  A byte is a number in 0..255, the input a sequence of bytes,  *)
(* and 'index' is the 0-based cursor of the Rust code, so the byte the     *)
(* code writes input[i] is input[i + 1] here (ByteAt).  One action is one  *)
(* branch of the top-level match or one iteration of an inner loop.        *)
(*                                                                         *)
(* Float values are kept as exact decimals (num / 10^scale); the rounding  *)
(* of f64 is not modelled.  usize/isize totals cannot overflow for inputs  *)
(* of the lengths explored, the one subtraction on the cursor is guarded.  *)
(***************************************************************************)
EXTENDS Integers, Sequences, FiniteSets, TLC

VARIABLES
    input,       \* Parser.input: the borrowed byte buffer
    index,       \* Parser.index: the cursor, 0-based
    pc,          \* the control point of parse()
    body,        \* parse(): the HashMap being built, a function key -> value
    data_type,   \* parse_assign_start(): the type-tag token collected so far
    decoder,     \* the literal decoder the type tag selected
    ident,       \* parse_assign(): identifier bytes collected so far
    data,        \* parse_assign(): value bytes collected so far
    in_value,    \* parse_assign(): whether '=' has been seen
    error,       \* the Error returned, when pc = "err"
    iter_start,  \* history: the cursor at the start of the current iteration
                 \* of the top-level loop (-1 before the first)
    decreased,   \* history: whether some step has lowered the cursor
    line,        \* index_to_line_col(): the local line
    col,         \* index_to_line_col(): the local col
    taken        \* index_to_line_col(): bytes the iterator has yielded

vars ==
    <<input, index, pc, body, data_type, decoder, ident, data, in_value,
      error, iter_start, decreased, line, col, taken>>

---------------------------------------------------------------------------
(* Bytes the code names or writes as literals. *)

NUL == 0
TAB == 9
NEWLINE == 10
CR == 13
SPACE == 32
HASH == 35
MINUS == 45
DOT == 46
ASCII_ZERO == 48
ASCII_NINE == 57
SEMI == 59
EQ == 61
AT == 64
BACKSLASH == 92

\* s u i f b l m
DATA_TYPE_START_BYTES ==
    {115, 117, 105, 102, 98, 108, 109}

IGNORE_BYTES ==
    {SPACE, NEWLINE, CR, TAB}

---------------------------------------------------------------------------
(* Bounds of the exploration. *)

\* Longest input drawn over the whole Alphabet.
MaxLen == 4

\* Longest value run drawn over ValueAlphabet behind a tag@a= prefix.
MaxValLen == 4

---------------------------------------------------------------------------
(* Values and results. *)

String(bytes) ==
    [type |-> "String", val |-> bytes]

Unsigned(n) ==
    [type |-> "Unsigned", val |-> n]

Signed(n) ==
    [type |-> "Signed", val |-> n]

\* The decimal num / 10^scale.
Float(num, scale) ==
    [type |-> "Float", val |-> <<num, scale>>]

Bool(b) ==
    [type |-> "Bool", val |-> b]

Ok(value) ==
    [ok |-> TRUE, value |-> value]

Err(kind, message) ==
    [ok |-> FALSE, kind |-> kind, message |-> message]

NoError ==
    [kind |-> "None", message |-> "", index |-> 0]

\* Error::new(kind, message, self.index)
Error(kind, message, at) ==
    [kind |-> kind, message |-> message, index |-> at]

EmptyMap ==
    [k \in {} |-> k]

\* An insert that keeps the entry a key already has.
InsertKeepFirst(map, key, value) ==
    [k \in (DOMAIN map) \cup {key} |->
        IF k \in DOMAIN map THEN map[k] ELSE value]

\* HashMap::insert: a repeated key is overwritten.
Insert(map, key, value) ==
    [k \in (DOMAIN map) \cup {key} |-> IF k = key THEN value ELSE map[k]]

\* input[i] of the Rust code, for 0 <= i < len.
ByteAt(inp, i) ==
    inp[i + 1]

---------------------------------------------------------------------------
(* The cursor's escape test. *)

\* The test with the backslash check left out.
MaybeEscapedNoBackslash(inp, idx, current, expected) ==
    current = expected /\ idx > 0

\* maybe_escaped, with self.input = inp and self.index = idx: the byte it
\* compares with the backslash is input[index - 1] at the time of the call.
maybe_escaped(inp, idx, current, expected) ==
    current = expected /\ idx > 0 /\ ByteAt(inp, idx - 1) # BACKSLASH

---------------------------------------------------------------------------
(* Literal decoders: pure functions of the value run. *)

IsDigit(byte) ==
    byte \in ASCII_ZERO..ASCII_NINE

IsCont(byte) ==
    byte \in 128..191

\* String::from_utf8 accepts exactly the well-formed UTF-8 sequences.
RECURSIVE Utf8From(_, _)
Utf8From(bytes, i) ==
    LET n == Len(bytes)
        b0 == bytes[i]
        c(k) == i + k <= n /\ IsCont(bytes[i + k])
        r(k, lo, hi) == i + k <= n /\ bytes[i + k] \in lo..hi
    IN  IF i > n THEN TRUE
        ELSE IF b0 <= 127 THEN Utf8From(bytes, i + 1)
        ELSE IF b0 \in 194..223 THEN c(1) /\ Utf8From(bytes, i + 2)
        ELSE IF b0 = 224 THEN r(1, 160, 191) /\ c(2) /\ Utf8From(bytes, i + 3)
        ELSE IF b0 \in (225..236) \cup {238, 239}
            THEN c(1) /\ c(2) /\ Utf8From(bytes, i + 3)
        ELSE IF b0 = 237 THEN r(1, 128, 159) /\ c(2) /\ Utf8From(bytes, i + 3)
        ELSE IF b0 = 240
            THEN r(1, 144, 191) /\ c(2) /\ c(3) /\ Utf8From(bytes, i + 4)
        ELSE IF b0 \in 241..243
            THEN c(1) /\ c(2) /\ c(3) /\ Utf8From(bytes, i + 4)
        ELSE IF b0 = 244
            THEN r(1, 128, 143) /\ c(2) /\ c(3) /\ Utf8From(bytes, i + 4)
        ELSE FALSE

to_utf8(bytes) ==
    IF Utf8From(bytes, 1) THEN Ok(bytes) ELSE Err("WrongValue", "Invalid utf8")

parse_string(bytes) ==
    LET r == to_utf8(bytes)
    IN  IF r.ok THEN Ok(String(r.value)) ELSE r

\* The loop of parse_unsigned from byte i on, with the running total.
RECURSIVE UnsignedFrom(_, _, _)
UnsignedFrom(bytes, i, total) ==
    IF i > Len(bytes) THEN Ok(Unsigned(total))
    ELSE IF ~IsDigit(bytes[i]) THEN Err("WrongValue", "Invalid unsigned value")
    ELSE UnsignedFrom(bytes, i + 1, total + (bytes[i] - ASCII_ZERO))

parse_unsigned(bytes) ==
    UnsignedFrom(bytes, 1, 0)

\* The loop of parse_signed from byte i on.
RECURSIVE SignedFrom(_, _, _, _, _)
SignedFrom(bytes, i, total, is_negative, in_number) ==
    IF i > Len(bytes)
        THEN Ok(Signed(IF is_negative THEN -total ELSE total))
    ELSE IF bytes[i] = MINUS
        THEN IF in_number
            THEN Err("WrongValue", "Found '-' after number rather than before")
            ELSE SignedFrom(bytes, i + 1, total, ~is_negative, TRUE)
    ELSE IF ~IsDigit(bytes[i]) THEN Err("WrongValue", "Invalid signed value")
    ELSE SignedFrom(bytes, i + 1, total + (bytes[i] - ASCII_ZERO),
                    is_negative, in_number)

parse_signed(bytes) ==
    SignedFrom(bytes, 1, 0, FALSE, FALSE)

\* The loop of parse_float from byte i on.  total = num / 10^dec_count:
\* a digit before the '.' adds itself to total, the k-th digit after it adds
\* digit / 10^k.
RECURSIVE FloatFrom(_, _, _, _, _, _, _)
FloatFrom(bytes, i, num, dec_count, is_negative, in_number, in_dec) ==
    IF i > Len(bytes)
        THEN Ok(Float(IF is_negative THEN -num ELSE num, dec_count))
    ELSE IF bytes[i] = MINUS
        THEN IF in_number
            THEN Err("WrongValue", "Found '-' after number rather than before")
            ELSE FloatFrom(bytes, i + 1, num, dec_count, ~is_negative, TRUE,
                           in_dec)
    ELSE IF bytes[i] = DOT
        THEN IF in_dec
            THEN Err("WrongValue", "Found '.' after decimal rather than before")
            ELSE FloatFrom(bytes, i + 1, num, dec_count, is_negative,
                           in_number, TRUE)
    ELSE IF ~IsDigit(bytes[i]) THEN Err("WrongValue", "Invalid float value")
    ELSE IF in_dec
        THEN FloatFrom(bytes, i + 1, num * 10 + (bytes[i] - ASCII_ZERO),
                       dec_count + 1, is_negative, in_number, in_dec)
    ELSE FloatFrom(bytes, i + 1, num + (bytes[i] - ASCII_ZERO), dec_count,
                   is_negative, in_number, in_dec)

parse_float(bytes) ==
    FloatFrom(bytes, 1, 0, 0, FALSE, FALSE, FALSE)

\* true | t | false | f
parse_bool(bytes) ==
    IF bytes \in {<<116, 114, 117, 101>>, <<116>>} THEN Ok(Bool(TRUE))
    ELSE IF bytes \in {<<102, 97, 108, 115, 101>>, <<102>>} THEN Ok(Bool(FALSE))
    ELSE Err("WrongValue", "Invalid bool value")

\* self.$parser(input) of the *_assign function the type tag selected.
Decode(dec, bytes) ==
    CASE dec = "string" -> parse_string(bytes)
      [] dec = "unsigned" -> parse_unsigned(bytes)
      [] dec = "signed" -> parse_signed(bytes)
      [] dec = "float" -> parse_float(bytes)
      [] dec = "bool" -> parse_bool(bytes)

---------------------------------------------------------------------------
(* The type dispatcher and the delimiter rules of the assignment parser. *)

\* A dispatch on the first byte of the tag alone.
DecoderOfFirstByte(tag) ==
    IF tag = <<>> THEN "invalid"
    ELSE IF tag[1] = 115 THEN "string"
    ELSE IF tag[1] = 117 THEN "unsigned"
    ELSE IF tag[1] = 105 THEN "signed"
    ELSE IF tag[1] = 102 THEN "float"
    ELSE IF tag[1] = 98 THEN "bool"
    ELSE IF tag[1] \in {108, 109} THEN "todo"
    ELSE "invalid"

\* The match of parse_assign_start on the collected type tag:
\* s str | u uint | i sint | f float | b bool | l list m map (todo!()) | _
DecoderOf(tag) ==
    IF tag \in {<<115>>, <<115, 116, 114>>} THEN "string"
    ELSE IF tag \in {<<117>>, <<117, 105, 110, 116>>} THEN "unsigned"
    ELSE IF tag \in {<<105>>, <<115, 105, 110, 116>>} THEN "signed"
    ELSE IF tag \in {<<102>>, <<102, 108, 111, 97, 116>>} THEN "float"
    ELSE IF tag \in {<<98>>, <<98, 111, 111, 108>>} THEN "bool"
    ELSE IF tag \in {<<108>>, <<108, 105, 115, 116>>, <<109>>, <<109, 97, 112>>}
        THEN "todo"
    ELSE "invalid"

\* The '=' rule without the test for an empty identifier.
EqOutcomeUnchecked(id) ==
    "in_value"

\* parse_assign at a '=' delimiter.
EqOutcome(id) ==
    IF id = <<>> THEN "EmptyIdent" ELSE "in_value"

\* The ';' rule without the test for an empty value run.
SemiOutcomeNoValueCheck(id, inv, dat) ==
    IF id = <<>> THEN "UnexpectedChar"
    ELSE IF ~inv THEN "WrongValue"
    ELSE "break"

\* parse_assign at a ';' delimiter.
SemiOutcome(id, inv, dat) ==
    IF id = <<>> THEN "UnexpectedChar"
    ELSE IF ~inv \/ dat = <<>> THEN "WrongValue"
    ELSE "break"

\* Whitespace dropped wherever it stands.
SkippedEverywhere(next, inv, dat) ==
    next \in IGNORE_BYTES

\* parse_assign: the bytes dropped rather than collected.
Skipped(next, inv, dat) ==
    next \in IGNORE_BYTES /\ (~inv \/ dat = <<>>)

---------------------------------------------------------------------------
(* The inputs explored. *)

Seqs(S, n) ==
    UNION {[1..k -> S] : k \in 0..n}

\* NUL space # \ @ = ; u l a 1
Alphabet ==
    {NUL, SPACE, HASH, BACKSLASH, AT, EQ, SEMI, 117, 108, 97, 49}

\* 1 2 - . \ ; space
ValueAlphabet ==
    {49, 50, MINUS, DOT, BACKSLASH, SEMI, SPACE}

\* u@a=  i@a=  f@a=  s@a=
Prefixes ==
    {<<117, AT, 97, EQ>>, <<105, AT, 97, EQ>>, <<102, AT, 97, EQ>>,
     <<115, AT, 97, EQ>>}

Tagged ==
    {p \o v \o s : p \in Prefixes, v \in Seqs(ValueAlphabet, MaxValLen),
                   s \in {<<>>, <<SEMI>>}}

\* u@age=42;
Ex_age42 ==
    <<117, 64, 97, 103, 101, 61, 52, 50, 59>>

\* s@name=John Doe;
Ex_john ==
    <<115, 64, 110, 97, 109, 101, 61, 74, 111, 104, 110, 32, 68, 111, 101, 59>>

\* i@x=--5;
Ex_dneg ==
    <<105, 64, 120, 61, 45, 45, 53, 59>>

\* f@pi=3.14;
Ex_pi ==
    <<102, 64, 112, 105, 61, 51, 46, 49, 52, 59>>

\* s@n=Foo\;Bar;
Ex_foobar ==
    <<115, 64, 110, 61, 70, 111, 111, 92, 59, 66, 97, 114, 59>>

\* z@bad=1;
Ex_zbad ==
    <<122, 64, 98, 97, 100, 61, 49, 59>>

\* sx@a=1;
Ex_sx ==
    <<115, 120, 64, 97, 61, 49, 59>>

\* u@=1;
Ex_noident ==
    <<117, 64, 61, 49, 59>>

\* u@ =1;
Ex_wsident ==
    <<117, 64, 32, 61, 49, 59>>

\* u@age=;
Ex_noval ==
    <<117, 64, 97, 103, 101, 61, 59>>

\* u@age;
Ex_noeq ==
    <<117, 64, 97, 103, 101, 59>>

\* u@age=  ;
Ex_wsval ==
    <<117, 64, 97, 103, 101, 61, 32, 32, 59>>

\* # a comment # u@x=1;
Ex_comment ==
    <<35, 32, 97, 32, 99, 111, 109, 109, 101, 110, 116, 32, 35, 32, 117, 64,
      120, 61, 49, 59>>

\* u@a=1;u@a=2;
Ex_dup ==
    <<117, 64, 97, 61, 49, 59, 117, 64, 97, 61, 50, 59>>

\* u@a=1;u@b=1;u@a=2;
Ex_dup_ab ==
    <<117, 64, 97, 61, 49, 59, 117, 64, 98, 61, 49, 59,
      117, 64, 97, 61, 50, 59>>

\* u@a=1; then a 0x00 and a tail of bytes that are no expression
NulTail ==
    {<<117, 64, 97, 61, 49, 59, NUL>> \o t : t \in Seqs({EQ, SEMI, 122}, 2)}

\* s@ na me =  a b ;
Ex_ws_mixed ==
    <<115, 64, 32, 110, 97, 32, 109, 101, 32, 61, 32, 32, 97, 32, 98, 32, 59>>

\* f@x=12.5;
Ex_f125 ==
    <<102, 64, 120, 61, 49, 50, 46, 53, 59>>

\* u@age=42 and u@age, cut before the ';'
Ex_cut_value ==
    <<117, 64, 97, 103, 101, 61, 52, 50>>

Ex_cut_ident ==
    <<117, 64, 97, 103, 101>>

\* l@a=1;
Ex_list ==
    <<108, 64, 97, 61, 49, 59>>

\* bool@b=true;   b@b=f;   b@b=x;
Ex_bool ==
    {<<98, 111, 111, 108, 64, 98, 61, 116, 114, 117, 101, 59>>,
     <<98, 64, 98, 61, 102, 59>>, <<98, 64, 98, 61, 120, 59>>}

\* s@a=<0xFF>;   s@a=<0xC3 0xA9>;
Ex_utf8 ==
    {<<115, 64, 97, 61, 255, 59>>, <<115, 64, 97, 61, 195, 169, 59>>}

Examples ==
    {Ex_age42, Ex_john, Ex_dneg, Ex_pi, Ex_foobar, Ex_zbad, Ex_sx, Ex_noident,
     Ex_wsident, Ex_noval, Ex_noeq, Ex_wsval, Ex_comment, Ex_dup, Ex_dup_ab,
     Ex_ws_mixed, Ex_f125, Ex_cut_value, Ex_cut_ident, Ex_list}
        \cup Ex_bool \cup Ex_utf8 \cup NulTail

\* A '#' followed by a run over # \ a u ;
Commented ==
    {<<HASH>> \o v : v \in Seqs({HASH, BACKSLASH, 97, 117, SEMI}, MaxLen)}

\* Buffers of top-level whitespace only.
Whitespace ==
    {SPACE, NEWLINE, CR, TAB}

WhiteOnly ==
    Seqs(Whitespace, MaxLen)

\* s@ a= b ; with each blank drawn from the four whitespace bytes.
WhiteAssign ==
    {<<115, AT, w1, 97, EQ, w2, 98, w3, SEMI>> :
        w1 \in Whitespace, w2 \in Whitespace, w3 \in Whitespace}

\* What may stand between two assignments: nothing, or whitespace.
Gaps ==
    {<<>>, <<SPACE>>, <<NEWLINE>>, <<CR, TAB>>}

\* u@a=1; i@b=2; s@c=x; one after the other, with a gap after each of the
\* first two.
Consecutive ==
    {<<117, AT, 97, EQ, 49, SEMI>> \o g1 \o <<105, AT, 98, EQ, 50, SEMI>>
        \o g2 \o <<115, AT, 99, EQ, 120, SEMI>> : g1 \in Gaps, g2 \in Gaps}

Inputs ==
    Seqs(Alphabet, MaxLen) \cup Tagged \cup Commented \cup WhiteOnly
        \cup WhiteAssign \cup Consecutive \cup Examples

---------------------------------------------------------------------------
(* The parser. *)

Terminal ==
    {"ok", "err", "panic"}

\* The locals of index_to_line_col, which the parser never touches.
lc_vars ==
    <<line, col, taken>>

\* History: decreased records whether any step so far has lowered the cursor.
Tracked ==
    decreased' = (decreased \/ index' < index)

\* Parser::new(input)
Init ==
    /\ input \in Inputs
    /\ index = 0
    /\ pc = "parse"
    /\ body = EmptyMap
    /\ data_type = <<>>
    /\ decoder = "none"
    /\ ident = <<>>
    /\ data = <<>>
    /\ in_value = FALSE
    /\ error = NoError
    /\ iter_start = -1
    /\ decreased = FALSE
    /\ line = 1
    /\ col = 2
    /\ taken = 0

\* parse(): the empty input returns at once, otherwise the loop is entered.
ParseEnter ==
    /\ pc = "parse"
    /\ pc' = IF input = <<>> THEN "ok" ELSE "top"
    /\ body' = EmptyMap
    /\ UNCHANGED <<input, index, data_type, decoder, ident, data, in_value,
                   error, iter_start>>
    /\ Tracked
    /\ UNCHANGED lc_vars

\* while self.index < len: the condition fails, Ok(Message(body)).
LoopExit ==
    /\ pc = "top"
    /\ index >= Len(input)
    /\ pc' = "ok"
    /\ UNCHANGED <<input, index, body, data_type, decoder, ident, data,
                   in_value, error, iter_start>>
    /\ Tracked
    /\ UNCHANGED lc_vars

\* A 0x00 treated as one more ignored byte.
TopNullSkipped ==
    /\ pc = "top"
    /\ index < Len(input)
    /\ ByteAt(input, index) = NUL
    /\ pc' = "advance"
    /\ iter_start' = index
    /\ UNCHANGED <<input, index, body, data_type, decoder, ident, data,
                   in_value, error>>
    /\ Tracked
    /\ UNCHANGED lc_vars

\* 0 => break
TopNull ==
    /\ pc = "top"
    /\ index < Len(input)
    /\ ByteAt(input, index) = NUL
    /\ pc' = "ok"
    /\ iter_start' = index
    /\ UNCHANGED <<input, index, body, data_type, decoder, ident, data,
                   in_value, error>>
    /\ Tracked
    /\ UNCHANGED lc_vars

\* A match arm that forgot the tab, which then falls to the last arm.
TopIgnoreNoTab ==
    /\ pc = "top"
    /\ index < Len(input)
    /\ ByteAt(input, index) \in {SPACE, NEWLINE, CR, TAB}
    /\ IF ByteAt(input, index) = TAB
        THEN /\ pc' = "err"
             /\ error' = Error("UnexpectedChar", "Expected expression", index)
        ELSE /\ pc' = "advance"
             /\ UNCHANGED error
    /\ iter_start' = index
    /\ UNCHANGED <<input, index, body, data_type, decoder, ident, data,
                   in_value>>
    /\ Tracked
    /\ UNCHANGED lc_vars

\* b' ' | b'\n' | b'\r' | b'\t' => {}
TopIgnore ==
    /\ pc = "top"
    /\ index < Len(input)
    /\ ByteAt(input, index) \in {SPACE, NEWLINE, CR, TAB}
    /\ pc' = "advance"
    /\ iter_start' = index
    /\ UNCHANGED <<input, index, body, data_type, decoder, ident, data,
                   in_value, error>>
    /\ Tracked
    /\ UNCHANGED lc_vars

\* b'#' => the comment loop is entered
TopComment ==
    /\ pc = "top"
    /\ index < Len(input)
    /\ ByteAt(input, index) = HASH
    /\ pc' = "comment"
    /\ iter_start' = index
    /\ UNCHANGED <<input, index, body, data_type, decoder, ident, data,
                   in_value, error>>
    /\ Tracked
    /\ UNCHANGED lc_vars

\* other if DATA_TYPE_START_BYTES.contains(&other) => parse_assign_start()
TopAssign ==
    /\ pc = "top"
    /\ index < Len(input)
    /\ ByteAt(input, index) \in DATA_TYPE_START_BYTES
    /\ pc' = "tag"
    /\ data_type' = <<>>
    /\ iter_start' = index
    /\ UNCHANGED <<input, index, body, decoder, ident, data, in_value, error>>
    /\ Tracked
    /\ UNCHANGED lc_vars

\* other => Err(UnexpectedChar); the message also names the byte.
TopUnexpected ==
    /\ pc = "top"
    /\ index < Len(input)
    /\ ByteAt(input, index) \notin
           {NUL, SPACE, NEWLINE, CR, TAB, HASH} \cup DATA_TYPE_START_BYTES
    /\ pc' = "err"
    /\ error' = Error("UnexpectedChar", "Expected expression", index)
    /\ iter_start' = index
    /\ UNCHANGED <<input, index, body, data_type, decoder, ident, data,
                   in_value>>
    /\ Tracked
    /\ UNCHANGED lc_vars

\* One iteration of the comment loop: the cursor moves, then input[index] is
\* read, which is out of bounds (a panic) once index = len.
CommentStep ==
    /\ pc = "comment"
    /\ IF index < Len(input)
        THEN /\ index' = index + 1
             /\ pc' = IF index + 1 >= Len(input) THEN "panic"
                      ELSE IF maybe_escaped(input, index + 1,
                                            ByteAt(input, index + 1), HASH)
                          THEN "advance"
                      ELSE "comment"
        ELSE /\ index' = index
             /\ pc' = "advance"
    /\ UNCHANGED <<input, body, data_type, decoder, ident, data, in_value,
                   error, iter_start>>
    /\ Tracked
    /\ UNCHANGED lc_vars

\* One iteration of the loop of parse_assign_start: next(), then the test
\* for '@' with the cursor already past the byte.
ScanDataType ==
    /\ pc = "tag"
    /\ IF index >= Len(input)
        THEN /\ pc' = "dispatch"
             /\ UNCHANGED <<index, data_type>>
        ELSE LET next == ByteAt(input, index)
             IN  /\ index' = index + 1
                 /\ IF maybe_escaped(input, index + 1, next, AT)
                     THEN pc' = "dispatch" /\ UNCHANGED data_type
                     ELSE /\ pc' = "tag"
                          /\ data_type' = IF next \in IGNORE_BYTES
                                THEN data_type
                                ELSE Append(data_type, next)
    /\ UNCHANGED <<input, body, decoder, ident, data, in_value, error,
                   iter_start>>
    /\ Tracked
    /\ UNCHANGED lc_vars

\* The match of parse_assign_start; a literal type enters parse_assign.
Dispatch ==
    /\ pc = "dispatch"
    /\ LET d == DecoderOf(data_type)
       IN  IF d = "todo"
               THEN /\ pc' = "panic"
                    /\ UNCHANGED <<decoder, ident, data, in_value, error>>
           ELSE IF d = "invalid"
               THEN /\ pc' = "err"
                    /\ error' = Error("UnexpectedChar", "Invalid data type",
                                      index)
                    /\ UNCHANGED <<decoder, ident, data, in_value>>
           ELSE /\ pc' = "assign"
                /\ decoder' = d
                /\ ident' = <<>>
                /\ data' = <<>>
                /\ in_value' = FALSE
                /\ UNCHANGED error
    /\ UNCHANGED <<input, index, body, data_type, iter_start>>
    /\ Tracked
    /\ UNCHANGED lc_vars

\* One iteration of the loop of parse_assign.
ScanAssign ==
    /\ pc = "assign"
    /\ IF index >= Len(input)
        THEN /\ pc' = "assign_end"
             /\ UNCHANGED <<index, ident, data, in_value, error>>
        ELSE LET next == ByteAt(input, index)
                 at == index + 1
             IN  /\ index' = at
                 /\ IF maybe_escaped(input, at, next, EQ)
                     THEN IF EqOutcome(ident) = "EmptyIdent"
                         THEN /\ pc' = "err"
                              /\ error' = Error("EmptyIdent",
                                                "Identifier is empty", at)
                              /\ UNCHANGED <<ident, data, in_value>>
                         ELSE /\ pc' = "assign"
                              /\ in_value' = TRUE
                              /\ UNCHANGED <<ident, data, error>>
                    ELSE IF maybe_escaped(input, at, next, SEMI)
                     THEN LET o == SemiOutcome(ident, in_value, data)
                          IN  /\ pc' = IF o = "break" THEN "assign_end"
                                       ELSE "err"
                              /\ error' =
                                    IF o = "UnexpectedChar"
                                        THEN Error(o,
                                          "Unexpected semicolon before expr start",
                                          at)
                                    ELSE IF o = "WrongValue"
                                        THEN Error(o, "Expected value in expr",
                                                   at)
                                    ELSE error
                              /\ UNCHANGED <<ident, data, in_value>>
                    ELSE /\ pc' = "assign"
                         /\ IF Skipped(next, in_value, data)
                             THEN UNCHANGED <<ident, data>>
                             ELSE IF in_value
                                 THEN data' = Append(data, next)
                                      /\ UNCHANGED ident
                                 ELSE ident' = Append(ident, next)
                                      /\ UNCHANGED data
                         /\ UNCHANGED <<in_value, error>>
    /\ UNCHANGED <<input, body, data_type, decoder, iter_start>>
    /\ Tracked
    /\ UNCHANGED lc_vars

\* parse_assign without the decrement of the cursor at its end.
AssignEndNoDecrement ==
    /\ pc = "assign_end"
    /\ pc' = "decode"
    /\ UNCHANGED <<input, index, body, data_type, decoder, ident, data,
                   in_value, error, iter_start>>
    /\ Tracked
    /\ UNCHANGED lc_vars

\* self.index -= 1 at the end of parse_assign.  The cursor is a usize: at 0
\* the subtraction would overflow (a panic in a checked build).
AssignEnd ==
    /\ pc = "assign_end"
    /\ IF index = 0
        THEN pc' = "panic" /\ UNCHANGED index
        ELSE pc' = "decode" /\ index' = index - 1
    /\ UNCHANGED <<input, body, data_type, decoder, ident, data, in_value,
                   error, iter_start>>
    /\ Tracked
    /\ UNCHANGED lc_vars

\* The *_assign function decodes the value run; parse() inserts the Assign.
DecodeValue ==
    /\ pc = "decode"
    /\ LET r == Decode(decoder, data)
       IN  IF r.ok
               THEN /\ pc' = "advance"
                    /\ body' = Insert(body, ident, r.value)
                    /\ UNCHANGED error
               ELSE /\ pc' = "err"
                    /\ error' = Error(r.kind, r.message, index)
                    /\ UNCHANGED body
    /\ UNCHANGED <<input, index, data_type, decoder, ident, data, in_value,
                   iter_start>>
    /\ Tracked
    /\ UNCHANGED lc_vars

\* The end of an iteration without the increment of the cursor.
AdvanceStuck ==
    /\ pc = "advance"
    /\ pc' = "top"
    /\ UNCHANGED <<input, index, body, data_type, decoder, ident, data,
                   in_value, error, iter_start>>
    /\ Tracked
    /\ UNCHANGED lc_vars

\* self.index += 1 at the end of an iteration of the top-level loop.
Advance ==
    /\ pc = "advance"
    /\ index' = index + 1
    /\ pc' = "top"
    /\ UNCHANGED <<input, body, data_type, decoder, ident, data, in_value,
                   error, iter_start>>
    /\ Tracked
    /\ UNCHANGED lc_vars

Next ==
    \/ ParseEnter
    \/ LoopExit
    \/ TopNull
    \/ TopIgnore
    \/ TopComment
    \/ TopAssign
    \/ TopUnexpected
    \/ CommentStep
    \/ ScanDataType
    \/ Dispatch
    \/ ScanAssign
    \/ AssignEnd
    \/ DecodeValue
    \/ Advance

Spec ==
    Init /\ [][Next]_vars

\* parse() is one uninterrupted call: a step that can be taken is taken.
FairSpec ==
    Spec /\ WF_vars(Next)

---------------------------------------------------------------------------
(* index_to_line_col(input, index), which main applies to the offset of an
   Error.  The arguments are held in input and index. *)

\* Buffers over newline, 'a' and space.
LineColInputs ==
    Seqs({NEWLINE, 97, SPACE}, MaxLen)

\* let mut line = 1; let mut col = 2; the iterator has yielded nothing.
LineColInit ==
    /\ input \in LineColInputs
    /\ index \in 0..(MaxLen + 1)
    /\ pc = "line_col"
    /\ line = 1
    /\ col = 2
    /\ taken = 0
    /\ body = EmptyMap
    /\ data_type = <<>>
    /\ decoder = "none"
    /\ ident = <<>>
    /\ data = <<>>
    /\ in_value = FALSE
    /\ error = NoError
    /\ iter_start = -1
    /\ decreased = FALSE

\* An iteration in which a newline leaves the column where it was going.
LineColStepNoRestart ==
    /\ pc = "line_col"
    /\ taken < index
    /\ taken < Len(input)
    /\ IF ByteAt(input, taken) = NEWLINE
        THEN line' = line + 1 /\ col' = col + 1
        ELSE col' = col + 1 /\ UNCHANGED line
    /\ taken' = taken + 1
    /\ UNCHANGED <<input, index, pc, body, data_type, decoder, ident, data,
                   in_value, error, iter_start, decreased>>

\* One iteration of for &byte in input.iter().take(index).
LineColStep ==
    /\ pc = "line_col"
    /\ taken < index
    /\ taken < Len(input)
    /\ IF ByteAt(input, taken) = NEWLINE
        THEN line' = line + 1 /\ col' = 1
        ELSE col' = col + 1 /\ UNCHANGED line
    /\ taken' = taken + 1
    /\ UNCHANGED <<input, index, pc, body, data_type, decoder, ident, data,
                   in_value, error, iter_start, decreased>>

\* The iterator is exhausted, by take(index) or by the end of the slice:
\* (line, col) is returned.
LineColReturn ==
    /\ pc = "line_col"
    /\ (taken >= index \/ taken >= Len(input))
    /\ pc' = "line_col_done"
    /\ UNCHANGED <<input, index, body, data_type, decoder, ident, data,
                   in_value, error, iter_start, decreased, line, col, taken>>

LineColNext ==
    \/ LineColStep
    \/ LineColReturn

LineColSpec ==
    LineColInit /\ [][LineColNext]_vars

---------------------------------------------------------------------------
(* Vocabulary of the properties. *)

\* The standard base-10 value of a run of ASCII digits, most significant
\* digit first.
RECURSIVE Positional(_)
Positional(digits) ==
    IF digits = <<>> THEN 0
    ELSE 10 * Positional(SubSeq(digits, 1, Len(digits) - 1))
             + (digits[Len(digits)] - 48)

AllDigits(bytes) ==
    \A i \in 1..Len(bytes) : bytes[i] \in 48..57

\* The number of '-' bytes at the front of a run.
RECURSIVE LeadingMinus(_)
LeadingMinus(bytes) ==
    IF bytes # <<>> /\ bytes[1] = 45 THEN 1 + LeadingMinus(Tail(bytes)) ELSE 0

\* The byte at offset i is not immediately preceded by a backslash.
Unescaped(inp, i) ==
    i = 0 \/ inp[i] # 92

\* The 14 spellings of a type tag.
RecognizedTags ==
    {<<115>>, <<115, 116, 114>>, <<117>>, <<117, 105, 110, 116>>, <<105>>,
     <<115, 105, 110, 116>>, <<102>>, <<102, 108, 111, 97, 116>>, <<98>>,
     <<98, 111, 111, 108>>, <<108>>, <<108, 105, 115, 116>>, <<109>>,
     <<109, 97, 112>>}

\* The offsets after p of a '#' that no backslash immediately precedes.
Closers(inp, p) ==
    {q \in (p + 1)..(Len(inp) - 1) : inp[q + 1] = 35 /\ inp[q] # 92}

HasClose(inp, p) ==
    Closers(inp, p) # {}

\* The offset of the '#' that closes the comment opened at offset p.
CommentClose(inp, p) ==
    CHOOSE q \in Closers(inp, p) : \A r \in Closers(inp, p) : q <= r

\* The byte about to be read by the loop the parser is in.
AtByte(b) ==
    index < Len(input) /\ ByteAt(input, index) = b

---------------------------------------------------------------------------
(* C1..C10 *)

\* C1: parse never aborts: no run reaches a panic (an unimplemented branch,
\* an out-of-bounds read of the input, an underflow of the cursor).
C1_NeverPanics ==
    pc # "panic"

\* C2: every completed iteration of the top-level loop (a whitespace skip, a
\* comment skip, a dispatched assignment with its index -= 1) leaves the
\* cursor strictly beyond where the iteration started, and every run of
\* parse stops: with a Message, with an Error, or in the abort C1 is about.
C2_Terminates ==
    /\ [][pc = "advance" => index' > iter_start]_vars
    /\ <>(pc \in Terminal)

\* An iteration that dispatched an assignment, corrected the cursor by
\* index -= 1 and advanced has completed.
C2_Witness ==
    /\ pc = "top"
    /\ iter_start >= 0
    /\ ByteAt(input, iter_start) \in DATA_TYPE_START_BYTES
    /\ index > iter_start

\* C3: for the value run of a terminated assignment the unsigned decoder
\* yields the positional base-10 value of a non-empty run of digits, and
\* WrongValue for a run with a non-digit byte.
C3_UnsignedPositional ==
    [][(pc = "decode" /\ decoder = "unsigned" /\ data # <<>> /\ AtByte(59)) =>
          IF AllDigits(data)
              THEN pc' = "advance" /\ body'[ident] = Unsigned(Positional(data))
              ELSE pc' = "err" /\ error'.kind = "WrongValue"]_vars

\* C4: the value run of a terminated assignment made of k '-' bytes and a
\* digit decodes to the digit when k is even and to its negation when k is
\* odd.  (Stated for one digit, where the value of the digits is not in
\* question.)
C4_SignToggles ==
    [][(/\ pc = "decode"
        /\ decoder = "signed"
        /\ AtByte(59)
        /\ Len(data) = LeadingMinus(data) + 1
        /\ data[Len(data)] \in 48..57) =>
          /\ pc' = "advance"
          /\ body'[ident] =
                Signed(IF LeadingMinus(data) % 2 = 0
                           THEN data[Len(data)] - 48
                           ELSE -(data[Len(data)] - 48))]_vars

\* C5: in the assignment parser a ';' or '=' right after a backslash is no
\* delimiter: scanning goes on and the active buffer then ends with the
\* backslash and that byte.
C5_EscapedDelimiterKept ==
    [][(/\ pc = "assign"
        /\ (AtByte(59) \/ AtByte(61))
        /\ ~Unescaped(input, index)) =>
          /\ pc' = "assign"
          /\ LET buf == IF in_value THEN data' ELSE ident'
             IN  /\ Len(buf) >= 2
                 /\ SubSeq(buf, Len(buf) - 1, Len(buf))
                        = <<92, ByteAt(input, index)>>]_vars

\* C6: a top-level byte that starts no expression, and a type tag that is
\* none of the 14 spellings, each end parse with an UnexpectedChar error.
C6_UnknownTagRejected ==
    /\ [][(/\ pc = "top"
           /\ index < Len(input)
           /\ ByteAt(input, index) \notin
                  {0, 32, 10, 13, 9, 35, 115, 117, 105, 102, 98, 108, 109}) =>
             (pc' = "err" /\ error'.kind = "UnexpectedChar" /\ body' = body)
         ]_vars
    /\ [][(pc = "dispatch" /\ data_type \notin RecognizedTags) =>
             (pc' = "err" /\ error'.kind = "UnexpectedChar" /\ body' = body)
         ]_vars
    /\ []((input \in {Ex_zbad, Ex_sx} /\ pc \in Terminal) =>
             (pc = "err" /\ error.kind = "UnexpectedChar"))

\* sx@a=1; is rejected by the dispatcher.
C6_Witness ==
    /\ input = Ex_sx
    /\ pc = "err"
    /\ error.kind = "UnexpectedChar"
    /\ error.message = "Invalid data type"
    /\ data_type = <<115, 120>>

\* C7: an unescaped '=' met while the identifier is empty ends parse with an
\* EmptyIdent error; whitespace before it does not count (u@=1; and u@ =1;).
C7_EmptyIdent ==
    /\ [][(/\ pc = "assign"
           /\ AtByte(61)
           /\ Unescaped(input, index)
           /\ ident = <<>>) =>
             (pc' = "err" /\ error'.kind = "EmptyIdent" /\ body' = body)]_vars
    /\ []((input \in {Ex_noident, Ex_wsident} /\ pc \in Terminal) =>
             (pc = "err" /\ error.kind = "EmptyIdent"))

\* u@ =1; has ended with EmptyIdent.
C7_Witness ==
    /\ input = Ex_wsident
    /\ pc = "err"
    /\ error.kind = "EmptyIdent"

\* C8: an unescaped ';' met with a non-empty identifier and no '=' or no
\* value byte ends parse with WrongValue, one met with an empty identifier
\* with UnexpectedChar; nothing is decoded or inserted.
C8_EmptyValue ==
    /\ [][(pc = "assign" /\ AtByte(59) /\ Unescaped(input, index)) =>
             /\ (ident # <<>> /\ (~in_value \/ data = <<>>)) =>
                   (pc' = "err" /\ error'.kind = "WrongValue" /\ body' = body)
             /\ ident = <<>> =>
                   (pc' = "err" /\ error'.kind = "UnexpectedChar"
                    /\ body' = body)]_vars
    /\ []((input \in {Ex_noval, Ex_noeq, Ex_wsval} /\ pc \in Terminal) =>
             (pc = "err" /\ error.kind = "WrongValue" /\ body = EmptyMap))

\* u@age=  ; has ended with WrongValue at its ';'.
C8_Witness ==
    /\ input = Ex_wsval
    /\ pc = "err"
    /\ error.kind = "WrongValue"
    /\ error.message = "Expected value in expr"

\* C9: a comment that has a closing '#' is skipped up to and including the
\* first '#' no backslash precedes, adds no entry and raises no error, and
\* the top-level loop resumes at the byte after it.
C9_CommentSkipped ==
    /\ [][(pc = "comment" /\ HasClose(input, iter_start)) =>
             /\ body' = body
             /\ error' = error
             /\ pc' \in {"comment", "advance"}
             /\ index' <= CommentClose(input, iter_start)
             /\ pc' = "advance" <=> index' = CommentClose(input, iter_start)
         ]_vars
    /\ [][(/\ pc = "advance"
           /\ ByteAt(input, iter_start) = 35
           /\ HasClose(input, iter_start)) =>
             (pc' = "top" /\ index' = CommentClose(input, iter_start) + 1)
         ]_vars
    /\ []((input = Ex_comment /\ pc \in Terminal) =>
             (pc = "ok" /\ body = (<<120>> :> Unsigned(1))))

\* A comment holding an escaped '#' has been closed at the later '#'.
C9_Witness ==
    /\ pc = "advance"
    /\ ByteAt(input, iter_start) = 35
    /\ \E q \in (iter_start + 1)..(index - 1) :
          ByteAt(input, q) = 35 /\ ByteAt(input, q - 1) = 92

\* C10: an input that ends inside a comment makes parse return an Error.
C10_UnterminatedCommentIsError ==
    (/\ pc \in Terminal
     /\ iter_start >= 0
     /\ ByteAt(input, iter_start) = 35
     /\ ~HasClose(input, iter_start)) => pc = "err"

---------------------------------------------------------------------------
(* C11 .. C20 *)

\* C11: no entry with an empty identifier is ever in the body, so every key
\* of a returned Message is non-empty.
C11_KeysNonEmpty ==
    <<>> \notin DOMAIN body

\* C12: in a parse that ends in a Message no step has lowered the cursor.
C12_CursorNeverDecreases ==
    pc = "ok" => ~decreased

\* The messages of the errors that parse_assign raises at a delimiter.
DelimiterMessages ==
    {"Identifier is empty", "Unexpected semicolon before expr start",
     "Expected value in expr"}

\* The messages of the errors that the literal decoders raise.
DecoderMessages ==
    {"Invalid utf8", "Invalid unsigned value", "Invalid signed value",
     "Invalid float value", "Invalid bool value",
     "Found '-' after number rather than before",
     "Found '.' after decimal rather than before"}

\* C13: the offset of a returned Error is the offset of the byte at which the
\* fault was detected: the offending top-level byte, the offending '=' or
\* ';' delimiter, or a byte of the value run for a failure of a decoder.
C13_ErrorOffsetIsFaultByte ==
    pc = "err" =>
        /\ error.message = "Expected expression" =>
              error.index = iter_start
        /\ error.message \in DelimiterMessages =>
              /\ error.index < Len(input)
              /\ ByteAt(input, error.index) =
                    (IF error.kind = "EmptyIdent" THEN 61 ELSE 59)
        /\ error.message \in DecoderMessages =>
              /\ error.index < Len(input)
              /\ \E i \in 1..Len(data) : data[i] = ByteAt(input, error.index)

\* C14: an assignment whose identifier is already in the body raises no
\* error and replaces the value; the body keeps one entry per identifier and
\* the other entries are untouched.  'u@a=1;u@a=2;' yields {a: Unsigned(2)}.
C14_LastWriteWins ==
    /\ [][(pc = "decode" /\ Decode(decoder, data).ok) =>
             /\ pc' = "advance"
             /\ error' = error
             /\ DOMAIN body' = (DOMAIN body) \cup {ident}
             /\ body'[ident] = Decode(decoder, data).value
             /\ \A k \in (DOMAIN body) \ {ident} : body'[k] = body[k]
         ]_vars
    /\ []((input = Ex_dup /\ pc \in Terminal) =>
             (pc = "ok" /\ body = (<<97>> :> Unsigned(2))))
    /\ []((input = Ex_dup_ab /\ pc \in Terminal) =>
             (pc = "ok" /\ body = (<<97>> :> Unsigned(2)) @@
                                  (<<98>> :> Unsigned(1))))

\* A second assignment to an identifier has replaced a different value.
C14_Witness ==
    /\ pc = "advance"
    /\ input \in {Ex_dup, Ex_dup_ab}
    /\ iter_start > 0
    /\ ident = <<97>>
    /\ body[ident] = Unsigned(2)

\* C15: a 0x00 met at top level ends the parse at once with success: the
\* body is returned as it stands, the cursor stays on the 0x00 and no later
\* byte is read, whatever follows.
C15_NullEndsParse ==
    /\ [][(pc = "top" /\ index < Len(input) /\ AtByte(0)) =>
             (pc' = "ok" /\ body' = body /\ index' = index /\ error' = error)
         ]_vars
    /\ [][pc # "ok"]_vars
    /\ []((/\ pc \in Terminal
           /\ iter_start >= 0
           /\ ByteAt(input, iter_start) = 0) =>
             (pc = "ok" /\ index = iter_start))
    /\ []((input \in NulTail /\ pc \in Terminal) =>
             (pc = "ok" /\ body = (<<97>> :> Unsigned(1))))

\* A parse has ended with success on a 0x00 that an assignment precedes and
\* that a byte which opens no expression follows.
C15_Witness ==
    /\ pc = "ok"
    /\ iter_start >= 0
    /\ iter_start + 1 < Len(input)
    /\ ByteAt(input, iter_start) = 0
    /\ ByteAt(input, iter_start + 1) \in {61, 59, 122}
    /\ body # EmptyMap

\* C16: the empty buffer, and every buffer made only of space, newline,
\* carriage return and tab, parses to an empty Message; each such byte read
\* at top level is passed over with nothing else changed.
C16_BlankIsEmptyMessage ==
    /\ [][(pc = "top" /\ index < Len(input)
              /\ ByteAt(input, index) \in {32, 10, 13, 9}) =>
             (pc' = "advance" /\ body' = body /\ error' = error
                /\ index' = index)
         ]_vars
    /\ []((/\ pc \in Terminal
           /\ \A i \in 1..Len(input) : input[i] \in {32, 10, 13, 9}) =>
             (pc = "ok" /\ body = EmptyMap /\ index = Len(input)))

\* A buffer holding a tab, a newline and a carriage return has been parsed.
C16_Witness ==
    /\ pc = "ok"
    /\ body = EmptyMap
    /\ \A i \in 1..Len(input) : input[i] \in {32, 10, 13, 9}
    /\ \A b \in {10, 13, 9} : \E i \in 1..Len(input) : input[i] = b

\* The empty buffer has been parsed.
C16_WitnessEmpty ==
    pc = "ok" /\ input = <<>> /\ body = EmptyMap

\* The first min(index, len) bytes of the input.
TakenBytes ==
    SubSeq(input, 1, IF index < Len(input) THEN index ELSE Len(input))

\* The positions of the newlines of a sequence.
Newlines(seq) ==
    {i \in 1..Len(seq) : seq[i] = 10}

\* The position of the last newline of a sequence that has one.
LastNewline(seq) ==
    CHOOSE i \in Newlines(seq) : \A j \in Newlines(seq) : j <= i

\* C17: index_to_line_col returns line = 1 + the number of newlines among the
\* first min(index, len) bytes; the column is 2 at index 0, grows by one per
\* byte that is no newline and restarts (at 1) after each newline; index 0
\* gives (1, 2); the input is never modified.
C17_LineCol ==
    /\ [](pc = "line_col_done" =>
             /\ line = 1 + Cardinality(Newlines(TakenBytes))
             /\ col = IF Newlines(TakenBytes) = {}
                          THEN 2 + Len(TakenBytes)
                          ELSE 1 + (Len(TakenBytes) - LastNewline(TakenBytes))
             /\ (index = 0 => (line = 1 /\ col = 2)))
    /\ [][input' = input]_vars

\* A result for an index past the end of an input with a newline that other
\* bytes precede and follow.
C17_Witness ==
    /\ pc = "line_col_done"
    /\ index > Len(input)
    /\ line = 2
    /\ col = 3
    /\ Len(input) = 4

\* C18: the signed decoder rejects a value run with a '-' straight after a
\* digit, such as '5-' or '1-2', with WrongValue.
C18_MinusAfterDigitRejected ==
    [][(/\ pc = "decode"
        /\ decoder = "signed"
        /\ AtByte(59)
        /\ \E i \in 1..(Len(data) - 1) :
              IsDigit(data[i]) /\ data[i + 1] = 45) =>
          (pc' = "err" /\ error'.kind = "WrongValue" /\ body' = body)]_vars

\* C19: in the assignment scan a whitespace byte is dropped while the
\* identifier is scanned and in the value before its first byte, and is kept
\* in the value after that.  's@name=John Doe;' yields {name: "John Doe"};
\* 's@ na me =  a b ;' yields the key 'name' with the value 'a b '.
C19_Whitespace ==
    /\ [][(/\ pc = "assign"
           /\ index < Len(input)
           /\ ByteAt(input, index) \in {32, 10, 13, 9}) =>
             /\ pc' = "assign"
             /\ ident' = ident
             /\ data' = IF in_value /\ data # <<>>
                            THEN Append(data, ByteAt(input, index))
                            ELSE data
         ]_vars
    /\ []((input = Ex_john /\ pc \in Terminal) =>
             /\ pc = "ok"
             /\ body = (<<110, 97, 109, 101>> :>
                           String(<<74, 111, 104, 110, 32, 68, 111, 101>>)))
    /\ []((input = Ex_ws_mixed /\ pc \in Terminal) =>
             /\ pc = "ok"
             /\ body = (<<110, 97, 109, 101>> :> String(<<97, 32, 98, 32>>)))
    /\ []((input \in WhiteAssign /\ pc \in Terminal) =>
             /\ pc = "ok"
             /\ body = (<<97>> :> String(<<98, input[8]>>)))

\* 's@ na me =  a b ;' has been parsed.
C19_Witness ==
    /\ input = Ex_ws_mixed
    /\ pc = "ok"
    /\ body[<<110, 97, 109, 101>>] = String(<<97, 32, 98, 32>>)

\* The positions of the '.' bytes of a run.
Dots(bytes) ==
    {i \in 1..Len(bytes) : bytes[i] = 46}

\* A run of digits and '.' bytes only.
DigitsAndDots(bytes) ==
    \A i \in 1..Len(bytes) : bytes[i] \in 48..57 \/ bytes[i] = 46

\* The run without its '.' bytes.
RECURSIVE WithoutDots(_)
WithoutDots(bytes) ==
    IF bytes = <<>> THEN <<>>
    ELSE IF bytes[1] = 46 THEN WithoutDots(Tail(bytes))
    ELSE <<bytes[1]>> \o WithoutDots(Tail(bytes))

\* C20: for the value run of a terminated assignment made of digits and
\* exactly one '.', the float decoder yields the positional base-10 value of
\* the digits, scaled by the number of digits after the '.' ('12.5' gives
\* 12.5, '3.14' gives 3.14); a run of digits with a second '.' is WrongValue.
C20_FloatPositional ==
    [][(/\ pc = "decode"
        /\ decoder = "float"
        /\ AtByte(59)
        /\ DigitsAndDots(data)
        /\ Dots(data) # {}) =>
          IF Cardinality(Dots(data)) = 1
              THEN /\ pc' = "advance"
                   /\ body'[ident] =
                         Float(Positional(WithoutDots(data)),
                               Len(data) - (CHOOSE i \in Dots(data) : TRUE))
              ELSE pc' = "err" /\ error'.kind = "WrongValue"]_vars

---------------------------------------------------------------------------
(* C21 .. C22 *)

\* The offsets of the ';' bytes of an input at or after an offset.
SemisFrom(inp, from) ==
    {p \in from..(Len(inp) - 1) : ByteAt(inp, p) = 59}

\* The offset of the first ';' at or after an offset, where there is one.
FirstSemi(inp, from) ==
    CHOOSE p \in SemisFrom(inp, from) : \A q \in SemisFrom(inp, from) : p <= q

\* The last iteration of the top-level loop that was begun read a type tag.
InAssignment ==
    /\ iter_start >= 0
    /\ ByteAt(input, iter_start) \in DATA_TYPE_START_BYTES

\* C21: when an assignment whose terminating ';' is at offset p has been
\* parsed, the top-level loop goes on at offset p + 1, with the body as the
\* assignment left it: no byte is skipped and none is read again.  Three
\* assignments in a row, with or without whitespace between them, are all
\* parsed.
C21_ResumesAfterSemicolon ==
    /\ []((/\ pc = "top"
           /\ InAssignment
           /\ SemisFrom(input, iter_start) # {}) =>
             index = FirstSemi(input, iter_start) + 1)
    /\ [][(pc = "advance" /\ InAssignment) =>
             (pc' = "top" /\ index' = index + 1 /\ body' = body)]_vars
    /\ []((input \in Consecutive /\ pc \in Terminal) =>
             /\ pc = "ok"
             /\ body = (<<97>> :> Unsigned(1)) @@ (<<98>> :> Signed(2))
                          @@ (<<99>> :> String(<<120>>)))

\* The loop is back at top level right after the ';' of a parsed assignment,
\* on the type tag of the next one.
C21_Witness ==
    /\ pc = "top"
    /\ InAssignment
    /\ SemisFrom(input, iter_start) # {}
    /\ index = FirstSemi(input, iter_start) + 1
    /\ index < Len(input)
    /\ ByteAt(input, index) \in DATA_TYPE_START_BYTES
    /\ body # EmptyMap

\* C22: parse returns a Message only if the assignment begun last reached a
\* terminating ';': an input that ends inside a type tag, an identifier or a
\* value, such as 'u@age=42', 'u@age' or 'u@', never yields a Message.
C22_TruncatedIsNoMessage ==
    (pc = "ok" /\ InAssignment) => SemisFrom(input, iter_start) # {}

====
